---- MODULE Spec2Model ----
(***************************************************************************)
(* Model of the TKN preload builders:                                      *)
(*   packages/server/src/baseline/build_bpe_baseline.py  (cyrb53,          *)
(*     create_storage_key, clean_bpe_token, build_bpe_tokenizer)           *)
(*   corpora/bpe.py                          (the hash-less builder)       *)
(*                                                                         *)
(* Strings are sequences of Unicode code points.  A 32-bit accumulator is  *)
(* the pair <<hi, lo>> of its 16-bit halves (value hi * 2^16 + lo), since  *)
(* TLC's integers are 32-bit signed; every operator below is exact on     *)
(* that representation.                                                    *)
(***************************************************************************)
EXTENDS Integers, Sequences, FiniteSets, TLC

(***************************************************************************)
(* Bounds of the model.                                                    *)
(***************************************************************************)
\* longest input string of a modelled cyrb53 call
MaxLen == 2
\* longest base token handed to clean_bpe_token on its own
MaxTokLen == 2
\* largest vocabulary the trainer returns
MaxVocab == 2

(***************************************************************************)
(* 32-bit arithmetic on <<hi, lo>> pairs.                                  *)
(***************************************************************************)
\* bit k of a
BitOf(a, k) == (a \div (2 ^ k)) % 2

\* Python's a ^ b on two 4-bit values, tabulated
XorNibble ==
    [a \in 0..15 |-> [b \in 0..15 |->
        ((BitOf(a, 0) + BitOf(b, 0)) % 2)
        + 2 * ((BitOf(a, 1) + BitOf(b, 1)) % 2)
        + 4 * ((BitOf(a, 2) + BitOf(b, 2)) % 2)
        + 8 * ((BitOf(a, 3) + BitOf(b, 3)) % 2)]]

\* a ^ b on two 16-bit values, nibble by nibble
Xor16(a, b) ==
    XorNibble[a % 16][b % 16]
    + 16 * XorNibble[(a \div 16) % 16][(b \div 16) % 16]
    + 256 * XorNibble[(a \div 256) % 16][(b \div 256) % 16]
    + 4096 * XorNibble[a \div 4096][b \div 4096]

\* a ^ b on 32-bit values
Xor32(x, y) == <<Xor16(x[1], y[1]), Xor16(x[2], y[2])>>

\* low and high 16 bits of the product of two 16-bit values
MulLo16(a, b) == (a * (b % 256) + ((a * (b \div 256)) % 256) * 256) % 65536
MulHi16(a, b) ==
    ((a * (b % 256) + ((a * (b \div 256)) % 256) * 256) \div 65536)
        + ((a * (b \div 256)) \div 256)

\* mutant: the product's carry out of bit 31 kept in the high half
Mul32Unmasked(x, k) ==
    << MulHi16(x[2], k[2]) + MulLo16(x[1], k[2]) + MulLo16(x[2], k[1]),
       MulLo16(x[2], k[2]) >>

\* (x * k) & 0xFFFFFFFF
Mul32(x, k) ==
    << (MulHi16(x[2], k[2]) + MulLo16(x[1], k[2]) + MulLo16(x[2], k[1])) % 65536,
       MulLo16(x[2], k[2]) >>

\* x >> 16 and x >> 13
Shr16(x) == <<0, x[1]>>
Shr13(x) == <<x[1] \div 8192, (x[1] % 8192) * 8 + (x[2] \div 8192)>>

\* (h >> (i * 8)) & 0xFF for i in 0..3
ByteOf(h, i) ==
    CASE i = 0 -> h[2] % 256
      [] i = 1 -> h[2] \div 256
      [] i = 2 -> h[1] % 256
      [] i = 3 -> h[1] \div 256

\* ord(char) as a 32-bit value (code points go up to 0x10FFFF)
Ord32(ch) == <<ch \div 65536, ch % 65536>>

\* the literals of cyrb53
K_DEADBEEF == <<57005, 48879>>
K_41C6CE57 == <<16838, 52823>>
K_2654435761 == <<40503, 31153>>
K_1597334677 == <<24373, 25749>>
K_2246822507 == <<34283, 51819>>
K_3266489909 == <<49842, 44597>>

(***************************************************************************)
(* cyrb53, statement by statement.                                         *)
(***************************************************************************)
\* h1 = 0xdeadbeef ^ seed
InitH1(seed) == Xor32(K_DEADBEEF, seed)
\* h2 = 0x41c6ce57 ^ seed
InitH2(seed) == Xor32(K_41C6CE57, seed)

\* h1 = ((h1 ^ ch) * 2654435761) & 0xFFFFFFFF
StepH1(h1v, ch) == Mul32(Xor32(h1v, Ord32(ch)), K_2654435761)
\* h2 = ((h2 ^ ch) * 1597334677) & 0xFFFFFFFF
StepH2(h2v, ch) == Mul32(Xor32(h2v, Ord32(ch)), K_1597334677)

\* h1 = ((h1 ^ (h1 >> 16)) * 2246822507) & 0xFFFFFFFF
MixLine1(h1v, h2v) == Mul32(Xor32(h1v, Shr16(h1v)), K_2246822507)
\* h1 ^= ((h2 ^ (h2 >> 13)) * 3266489909) & 0xFFFFFFFF
MixLine2(h1v, h2v) == Xor32(h1v, Mul32(Xor32(h2v, Shr13(h2v)), K_3266489909))
\* h2 = ((h2 ^ (h2 >> 16)) * 2246822507) & 0xFFFFFFFF
MixLine3(h1v, h2v) == Mul32(Xor32(h2v, Shr16(h2v)), K_2246822507)
\* h2 ^= ((h1 ^ (h1 >> 13)) * 3266489909) & 0xFFFFFFFF
MixLine4(h1v, h2v) == Xor32(h2v, Mul32(Xor32(h1v, Shr13(h1v)), K_3266489909))

\* bytes_to_fill = min(8, hash_size)
BytesToFill(hash_size) == IF hash_size < 8 THEN hash_size ELSE 8

\* mutant: a buffer of bytes_to_fill bytes, without the zero padding
FillResultNoPad(h1v, h2v, hash_size) ==
    [i \in 1..BytesToFill(hash_size) |->
        IF i - 1 < 4 THEN ByteOf(h2v, i - 1) ELSE ByteOf(h1v, i - 5)]

\* mutant: the accumulators laid out h1 first
FillResultH1First(h1v, h2v, hash_size) ==
    [i \in 1..hash_size |->
        IF i - 1 < BytesToFill(hash_size)
        THEN (IF i - 1 < 4 THEN ByteOf(h1v, i - 1) ELSE ByteOf(h2v, i - 5))
        ELSE 0]

\* result = bytearray(hash_size); the loop over range(bytes_to_fill)
FillResult(h1v, h2v, hash_size) ==
    [i \in 1..hash_size |->
        IF i - 1 < BytesToFill(hash_size)
        THEN (IF i - 1 < 4 THEN ByteOf(h2v, i - 1) ELSE ByteOf(h1v, i - 5))
        ELSE 0]

RECURSIVE CharLoop(_, _, _)
\* the accumulators <<h1, h2>> after the loop "for char in data" from index k
\* (each iteration's pair is a value before the next iteration starts, as in
\* the code: the bound variable nxt holds it)
CharLoop(hs, data, k) ==
    IF k > Len(data) THEN hs
    ELSE CHOOSE r \in {CharLoop(nxt, data, k + 1) :
                          nxt \in {<<StepH1(hs[1], data[k]), StepH2(hs[2], data[k])>>}} : TRUE

\* the four lines of the final mixing, in sequence
FinalMix(hs) ==
    LET a1 == MixLine1(hs[1], hs[2])
        a2 == MixLine2(a1, hs[2])
        b1 == MixLine3(a2, hs[2])
        b2 == MixLine4(a2, b1)
    IN <<a2, b2>>

\* cyrb53(data, seed, hash_size) as one call
cyrb53(data, seed, hash_size) ==
    LET hs == FinalMix(CharLoop(<<InitH1(seed), InitH2(seed)>>, data, 1))
    IN FillResult(hs[1], hs[2], hash_size)

(***************************************************************************)
(* create_storage_key: base64.b64encode(hash_bytes).decode('ascii').       *)
(* The key is the sequence of its characters.                              *)
(***************************************************************************)
B64Alphabet ==
    << "A","B","C","D","E","F","G","H","I","J","K","L","M","N","O","P",
       "Q","R","S","T","U","V","W","X","Y","Z","a","b","c","d","e","f",
       "g","h","i","j","k","l","m","n","o","p","q","r","s","t","u","v",
       "w","x","y","z","0","1","2","3","4","5","6","7","8","9","+","/" >>

B64Char(sextet) == B64Alphabet[sextet + 1]

\* standard base64 with '=' padding, of bytes[k..]: character j of the text
\* belongs to the group of three bytes (j - 1) \div 4
B64Encode(bytes, k) ==
    LET n == Len(bytes) - k + 1
        Byte(i) == IF i <= n THEN bytes[k + i - 1] ELSE 0
    IN [j \in 1..(4 * ((n + 2) \div 3)) |->
           LET g == 3 * ((j - 1) \div 4)
               pos == (j - 1) % 4
           IN IF pos = 0 THEN B64Char(Byte(g + 1) \div 4)
              ELSE IF pos = 1
                   THEN B64Char((Byte(g + 1) % 4) * 16 + (Byte(g + 2) \div 16))
              ELSE IF pos = 2
                   THEN (IF g + 2 > n THEN "="
                         ELSE B64Char((Byte(g + 2) % 16) * 4 + (Byte(g + 3) \div 64)))
              ELSE (IF g + 3 > n THEN "=" ELSE B64Char(Byte(g + 3) % 64))]

create_storage_key(hash_bytes) == B64Encode(hash_bytes, 1)

(***************************************************************************)
(* clean_bpe_token of build_bpe_baseline.py.                               *)
(***************************************************************************)
\* '</w>'
EowSuffix == <<60, 47, 119, 62>>
\* ['<unk>', '<pad>', '<s>', '</s>']
SpecialTokens ==
    { <<60, 117, 110, 107, 62>>, <<60, 112, 97, 100, 62>>,
      <<60, 115, 62>>, <<60, 47, 115, 62>> }

\* Python's None; no string equals it, code points being non-negative
None == <<-1>>

\* token.endswith(suffix)
EndsWith(token, suffix) ==
    /\ Len(token) >= Len(suffix)
    /\ SubSeq(token, Len(token) - Len(suffix) + 1, Len(token)) = suffix

\* mutant: every trailing marker stripped, not exactly one
RECURSIVE clean_bpe_token_strip_all(_)
clean_bpe_token_strip_all(token) ==
    IF EndsWith(token, EowSuffix)
    THEN LET rest == SubSeq(token, 1, Len(token) - 4)
         IN IF EndsWith(rest, EowSuffix) THEN clean_bpe_token_strip_all(rest) ELSE rest
    ELSE IF token \in SpecialTokens THEN None
    ELSE token

\* mutant: '</s>' missing from the list of special tokens
clean_bpe_token_no_eos(token) ==
    IF EndsWith(token, EowSuffix) THEN SubSeq(token, 1, Len(token) - 4)
    ELSE IF token \in SpecialTokens \ {<<60, 47, 115, 62>>} THEN None
    ELSE token

\* mutant: the marker recognised by its last character alone
clean_bpe_token_sloppy(token) ==
    IF EndsWith(token, <<62>>) /\ token \notin SpecialTokens
    THEN SubSeq(token, 1, Len(token) - 4)
    ELSE IF token \in SpecialTokens THEN None
    ELSE token

\* mutant: no placeholder is filtered
clean_bpe_token_keep_special(token) ==
    IF EndsWith(token, EowSuffix) THEN SubSeq(token, 1, Len(token) - 4)
    ELSE token

clean_bpe_token(token) ==
    IF EndsWith(token, EowSuffix) THEN SubSeq(token, 1, Len(token) - 4)
    ELSE IF token \in SpecialTokens THEN None
    ELSE token

(***************************************************************************)
(* State.                                                                  *)
(***************************************************************************)
VARIABLES
    \* two cyrb53 calls running side by side: arguments, locals, position
    data, seed, hash_size, h1, h2, char_idx, result, hpc,
    \* one clean_bpe_token call and a second call on its return value
    token, cleaned, recleaned, cpc,
    \* one run of a builder script: which script, where it stands, what
    \* build_bpe_tokenizer gave back
    script, pc, outcome,
    \* the --input-file argument's file and the file handed to the trainer
    input_file, text_file,
    \* tokenizer.get_vocab() in iteration order, and the items consumed
    vocab, idx,
    \* the locals preload_data, cleaned_tokens (baseline), token_list (corpora)
    preload_data, cleaned_tokens, token_list,
    \* the files bpe_vocab_N.json, /tmp/tkn_bpe_preload_N.json and
    \* <output_dir>/tkn_bpe_preload_N.json
    vocab_file, temp_file, preload_file

varsHash == <<data, seed, hash_size, h1, h2, char_idx, result, hpc>>
varsClean == <<token, cleaned, recleaned, cpc>>
varsBuild ==
    <<script, pc, outcome, input_file, text_file, vocab, idx, preload_data,
      cleaned_tokens, token_list, vocab_file, temp_file, preload_file>>
vars == <<varsHash, varsClean, varsBuild>>

(***************************************************************************)
(* Inputs of the cyrb53 calls.                                             *)
(***************************************************************************)
Calls == {1, 2}

\* code points of the input strings: 'a', U+1F600 (above 0xFFFF)
HashChars == {97, 128512}

RECURSIVE StringsUpTo(_, _)
\* all strings over chars of length at most n
StringsUpTo(chars, n) ==
    IF n = 0 THEN {<<>>}
    ELSE LET shorter == StringsUpTo(chars, n - 1)
         IN shorter \cup {Append(s, c) : s \in shorter, c \in chars}

HashStrings == StringsUpTo(HashChars, MaxLen)

\* 32-bit seeds: 0, 1, 0x12345678, 0xFFFFFFFF
HashSeeds == {<<0, 0>>, <<0, 1>>, <<4660, 22136>>, <<65535, 65535>>}

\* requested output lengths
HashSizes == {0, 5, 8, 64}

Zero32 == <<0, 0>>

HashIdle ==
    /\ data = [p \in Calls |-> <<>>]
    /\ seed = [p \in Calls |-> Zero32]
    /\ hash_size = [p \in Calls |-> 0]
    /\ h1 = [p \in Calls |-> Zero32]
    /\ h2 = [p \in Calls |-> Zero32]
    /\ char_idx = [p \in Calls |-> 0]
    /\ result = [p \in Calls |-> <<>>]
    /\ hpc = [p \in Calls |-> "idle"]

\* both calls get the same string and seed; each its own hash_size
HashInit ==
    /\ \E s \in HashStrings : data = [p \in Calls |-> s]
    /\ \E k \in HashSeeds : seed = [p \in Calls |-> k]
    /\ hash_size \in [Calls -> HashSizes]
    /\ h1 = [p \in Calls |-> Zero32]
    /\ h2 = [p \in Calls |-> Zero32]
    /\ char_idx = [p \in Calls |-> 0]
    /\ result = [p \in Calls |-> <<>>]
    /\ hpc = [p \in Calls |-> "init"]

(***************************************************************************)
(* cyrb53 as a sequence of steps of call p.                                *)
(***************************************************************************)
\* lines 18-19
Cyrb53Init(p) ==
    /\ hpc[p] = "init"
    /\ h1' = [h1 EXCEPT ![p] = InitH1(seed[p])]
    /\ h2' = [h2 EXCEPT ![p] = InitH2(seed[p])]
    /\ char_idx' = [char_idx EXCEPT ![p] = 1]
    /\ hpc' = [hpc EXCEPT ![p] = "loop"]
    /\ UNCHANGED <<data, seed, hash_size, result, varsClean, varsBuild>>

\* mutant: h1 kept in a module-level variable that all calls share
Cyrb53CharShared(p) ==
    /\ hpc[p] = "loop"
    /\ char_idx[p] <= Len(data[p])
    /\ h1' = [q \in Calls |-> StepH1(h1[p], data[p][char_idx[p]])]
    /\ h2' = [h2 EXCEPT ![p] = StepH2(h2[p], data[p][char_idx[p]])]
    /\ char_idx' = [char_idx EXCEPT ![p] = char_idx[p] + 1]
    /\ UNCHANGED <<data, seed, hash_size, result, hpc, varsClean, varsBuild>>

\* lines 22-25, one iteration
Cyrb53Char(p) ==
    /\ hpc[p] = "loop"
    /\ char_idx[p] <= Len(data[p])
    /\ h1' = [h1 EXCEPT ![p] = StepH1(h1[p], data[p][char_idx[p]])]
    /\ h2' = [h2 EXCEPT ![p] = StepH2(h2[p], data[p][char_idx[p]])]
    /\ char_idx' = [char_idx EXCEPT ![p] = char_idx[p] + 1]
    /\ UNCHANGED <<data, seed, hash_size, result, hpc, varsClean, varsBuild>>

\* line 28 (entered when the loop is exhausted)
Cyrb53Mix1(p) ==
    /\ hpc[p] = "loop"
    /\ char_idx[p] > Len(data[p])
    /\ h1' = [h1 EXCEPT ![p] = MixLine1(h1[p], h2[p])]
    /\ hpc' = [hpc EXCEPT ![p] = "mix2"]
    /\ UNCHANGED <<data, seed, hash_size, h2, char_idx, result, varsClean, varsBuild>>

\* line 29
Cyrb53Mix2(p) ==
    /\ hpc[p] = "mix2"
    /\ h1' = [h1 EXCEPT ![p] = MixLine2(h1[p], h2[p])]
    /\ hpc' = [hpc EXCEPT ![p] = "mix3"]
    /\ UNCHANGED <<data, seed, hash_size, h2, char_idx, result, varsClean, varsBuild>>

\* line 30
Cyrb53Mix3(p) ==
    /\ hpc[p] = "mix3"
    /\ h2' = [h2 EXCEPT ![p] = MixLine3(h1[p], h2[p])]
    /\ hpc' = [hpc EXCEPT ![p] = "mix4"]
    /\ UNCHANGED <<data, seed, hash_size, h1, char_idx, result, varsClean, varsBuild>>

\* line 31
Cyrb53Mix4(p) ==
    /\ hpc[p] = "mix4"
    /\ h2' = [h2 EXCEPT ![p] = MixLine4(h1[p], h2[p])]
    /\ hpc' = [hpc EXCEPT ![p] = "fill"]
    /\ UNCHANGED <<data, seed, hash_size, h1, char_idx, result, varsClean, varsBuild>>

\* lines 34-43
Cyrb53Return(p) ==
    /\ hpc[p] = "fill"
    /\ result' = [result EXCEPT ![p] = FillResult(h1[p], h2[p], hash_size[p])]
    /\ hpc' = [hpc EXCEPT ![p] = "done"]
    /\ UNCHANGED <<data, seed, hash_size, h1, h2, char_idx, varsClean, varsBuild>>

HashNext ==
    \E p \in Calls :
        \/ Cyrb53Init(p)
        \/ Cyrb53Char(p)
        \/ Cyrb53Mix1(p)
        \/ Cyrb53Mix2(p)
        \/ Cyrb53Mix3(p)
        \/ Cyrb53Mix4(p)
        \/ Cyrb53Return(p)

(***************************************************************************)
(* clean_bpe_token called on a token, then on what it returned.            *)
(***************************************************************************)
\* characters of the tokens: a s w < > /
TokenChars == {97, 115, 119, 60, 62, 47}

BaseTokens ==
    StringsUpTo(TokenChars, MaxTokLen)
        \cup SpecialTokens
        \cup {<<c>> \o t : c \in TokenChars, t \in SpecialTokens}
        \cup {t \o <<c>> : c \in TokenChars, t \in SpecialTokens}
        \cup {SubSeq(EowSuffix, 1, 3), SubSeq(EowSuffix, 2, 4)}

\* each base token bare, with the marker, and with the marker twice
CleanInputs ==
    BaseTokens \cup {t \o EowSuffix : t \in BaseTokens}
               \cup {t \o EowSuffix \o EowSuffix : t \in BaseTokens}

CleanIdle ==
    /\ token = <<>>
    /\ cleaned = <<>>
    /\ recleaned = <<>>
    /\ cpc = "idle"

CleanInit ==
    /\ token \in CleanInputs
    /\ cleaned = <<>>
    /\ recleaned = <<>>
    /\ cpc = "call"

CleanCall ==
    /\ cpc = "call"
    /\ cleaned' = clean_bpe_token(token)
    /\ cpc' = "cleaned"
    /\ UNCHANGED <<token, recleaned, varsHash, varsBuild>>

\* a surviving token is cleaned once more
CleanAgain ==
    /\ cpc = "cleaned"
    /\ cleaned # None
    /\ recleaned' = clean_bpe_token(cleaned)
    /\ cpc' = "recleaned"
    /\ UNCHANGED <<token, cleaned, varsHash, varsBuild>>

CleanNext == CleanCall \/ CleanAgain

(***************************************************************************)
(* The builder scripts.                                                    *)
(***************************************************************************)
\* the default arguments of cyrb53 (line 14), used by cyrb53(cleaned_token)
DefaultSeed == <<0, 0>>
DefaultHashSize == 64

\* the tokens a trained vocabulary is drawn from, each with its id:
\* <unk> <pad> <s> </s> run running running</w> </w> <unk></w>
TokenUniverse ==
    << <<60, 117, 110, 107, 62>>, <<60, 112, 97, 100, 62>>, <<60, 115, 62>>,
       <<60, 47, 115, 62>>,
       <<114, 117, 110>>,
       <<114, 117, 110, 110, 105, 110, 103>>,
       <<114, 117, 110, 110, 105, 110, 103, 60, 47, 119, 62>>,
       <<60, 47, 119, 62>>,
       <<60, 117, 110, 107, 62, 60, 47, 119, 62>> >>

VocabEntries ==
    {[token |-> TokenUniverse[i], token_id |-> i - 1] : i \in 1..Len(TokenUniverse)}

\* the entries BpeTrainer(special_tokens=[...]) yields whatever the corpus
SpecialEntries == {e \in VocabEntries : e.token \in SpecialTokens}

\* a dict's items: entries with unique tokens, in any iteration order
ItemLists(entries) ==
    UNION {{v \in [1..n -> entries] : \A i, j \in 1..n : v[i] = v[j] => i = j}
           : n \in 0..MaxVocab}

\* an empty corpus yields no learnt token, only the special ones
TrainerVocabularies(corpus) ==
    IF corpus = "empty" THEN ItemLists(SpecialEntries) ELSE ItemLists(VocabEntries)

\* a path with no file, and a complete preload file left by an earlier build
FileAbsent == [st |-> "absent", n |-> 0]
FilePrevious == [st |-> "previous", n |-> 0]
\* a file opened for writing with n items of the dump in it so far
FileOpen(n) == [st |-> "partial", n |-> n]
\* a file closed after the whole dump
FileComplete(n) == [st |-> "complete", n |-> n]

\* preload_data[storage_key] = record
DictSet(m, k, v) == [x \in (DOMAIN m) \cup {k} |-> IF x = k THEN v ELSE m[x]]
EmptyDict == [x \in {} |-> None]

\* mutant: token_id taken from the running count of records
ProcessEntryRunningId(m, e) ==
    LET cleaned_token == clean_bpe_token(e.token) IN
    IF cleaned_token = None THEN m
    ELSE DictSet(m,
                 create_storage_key(cyrb53(cleaned_token, DefaultSeed, DefaultHashSize)),
                 [data |-> cleaned_token, frequency |-> 1,
                  token_id |-> Cardinality(DOMAIN m), original_bpe |-> e.token])

\* mutant: the key computed from the token as the trainer emitted it
ProcessEntryRawKey(m, e) ==
    LET cleaned_token == clean_bpe_token(e.token) IN
    IF cleaned_token = None THEN m
    ELSE DictSet(m,
                 create_storage_key(cyrb53(e.token, DefaultSeed, DefaultHashSize)),
                 [data |-> cleaned_token, frequency |-> 1,
                  token_id |-> e.token_id, original_bpe |-> e.token])

\* mutant: a key already present keeps its first record
ProcessEntryKeepFirst(m, e) ==
    LET cleaned_token == clean_bpe_token(e.token)
        storage_key == create_storage_key(cyrb53(cleaned_token, DefaultSeed, DefaultHashSize))
    IN
    IF cleaned_token = None THEN m
    ELSE IF storage_key \in DOMAIN m THEN m
    ELSE DictSet(m, storage_key,
                 [data |-> cleaned_token, frequency |-> 1,
                  token_id |-> e.token_id, original_bpe |-> e.token])

\* the body of the loop over vocab.items() (lines 178-192), on preload_data
ProcessEntry(m, e) ==
    LET cleaned_token == clean_bpe_token(e.token) IN
    IF cleaned_token = None THEN m
    ELSE DictSet(m,
                 create_storage_key(cyrb53(cleaned_token, DefaultSeed, DefaultHashSize)),
                 [data |-> cleaned_token, frequency |-> 1,
                  token_id |-> e.token_id, original_bpe |-> e.token])

\* clean_bpe_token of corpora/bpe.py
clean_bpe_token_corpora(t) == t

BuildIdle ==
    /\ script = "none" /\ pc = "idle" /\ outcome = "none"
    /\ input_file = "absent" /\ text_file = "none"
    /\ vocab = <<>> /\ idx = 0
    /\ preload_data = EmptyDict /\ cleaned_tokens = <<>> /\ token_list = <<>>
    /\ vocab_file = "absent" /\ temp_file = FileAbsent /\ preload_file = FileAbsent

BuildInit ==
    /\ script \in {"baseline", "corpora"}
    /\ pc = "start" /\ outcome = "none"
    /\ input_file \in {"absent", "empty", "unreadable", "ok"}
    /\ text_file = "none"
    /\ vocab = <<>> /\ idx = 0
    /\ preload_data = EmptyDict /\ cleaned_tokens = <<>> /\ token_list = <<>>
    /\ vocab_file = "absent" /\ temp_file = FileAbsent
    /\ preload_file \in {FileAbsent, FilePrevious}

\* return False
ReturnFalse == pc' = "done" /\ outcome' = "false"
\* an exception nothing catches leaves build_bpe_tokenizer and main
Raise == pc' = "done" /\ outcome' = "raised"

\* ---- build_bpe_baseline.py, lines 147-160 ----
\* input_file given and os.path.exists(input_file)
UseInputFile ==
    /\ script = "baseline" /\ pc = "start"
    /\ input_file # "absent"
    /\ text_file' = input_file
    /\ pc' = "train"
    /\ UNCHANGED <<script, outcome, input_file, vocab, idx, preload_data,
                   cleaned_tokens, token_list, vocab_file, temp_file,
                   preload_file, varsHash, varsClean>>

\* download_tinystories_sample returned the sample file
DownloadSample ==
    /\ script = "baseline" /\ pc = "start"
    /\ input_file = "absent"
    /\ text_file' = "ok"
    /\ pc' = "train"
    /\ UNCHANGED <<script, outcome, input_file, vocab, idx, preload_data,
                   cleaned_tokens, token_list, vocab_file, temp_file,
                   preload_file, varsHash, varsClean>>

\* download_tinystories_sample returned None
DownloadFails ==
    /\ script = "baseline" /\ pc = "start"
    /\ input_file = "absent"
    /\ ReturnFalse
    /\ UNCHANGED <<script, input_file, text_file, vocab, idx, preload_data,
                   cleaned_tokens, token_list, vocab_file, temp_file,
                   preload_file, varsHash, varsClean>>

\* ---- corpora/bpe.py, lines 62-99 ----
\* validate_input_file returned True
ValidateInputOk ==
    /\ script = "corpora" /\ pc = "start"
    /\ input_file = "ok"
    /\ text_file' = input_file
    /\ pc' = "train"
    /\ UNCHANGED <<script, outcome, input_file, vocab, idx, preload_data,
                   cleaned_tokens, token_list, vocab_file, temp_file,
                   preload_file, varsHash, varsClean>>

\* validate_input_file returned False: no file, no text in it, or unreadable
ValidateInputFails ==
    /\ script = "corpora" /\ pc = "start"
    /\ input_file \in {"absent", "empty", "unreadable"}
    /\ ReturnFalse
    /\ UNCHANGED <<script, input_file, text_file, vocab, idx, preload_data,
                   cleaned_tokens, token_list, vocab_file, temp_file,
                   preload_file, varsHash, varsClean>>

\* ---- create_proper_bpe_tokenizer and get_vocab, both scripts ----
\* the tokenizers library is missing: None, and the caller returns False
TokenizerUnavailable ==
    /\ pc = "train"
    /\ ReturnFalse
    /\ UNCHANGED <<script, input_file, text_file, vocab, idx, preload_data,
                   cleaned_tokens, token_list, vocab_file, temp_file,
                   preload_file, varsHash, varsClean>>

\* tokenizer.train cannot read the file
TrainRaises ==
    /\ pc = "train"
    /\ text_file = "unreadable"
    /\ Raise
    /\ UNCHANGED <<script, input_file, text_file, vocab, idx, preload_data,
                   cleaned_tokens, token_list, vocab_file, temp_file,
                   preload_file, varsHash, varsClean>>

\* the tokenizer is trained and vocab = tokenizer.get_vocab()
TrainTokenizer ==
    /\ pc = "train"
    /\ text_file \in {"ok", "empty"}
    /\ vocab' \in TrainerVocabularies(text_file)
    /\ pc' = IF script = "baseline" THEN "save_vocab" ELSE "loop"
    /\ UNCHANGED <<script, outcome, input_file, text_file, idx, preload_data,
                   cleaned_tokens, token_list, vocab_file, temp_file,
                   preload_file, varsHash, varsClean>>

\* ---- build_bpe_baseline.py, lines 167-169 ----
SaveVocab ==
    /\ script = "baseline" /\ pc = "save_vocab"
    /\ vocab_file' = "written"
    /\ pc' = "loop"
    /\ UNCHANGED <<script, outcome, input_file, text_file, vocab, idx,
                   preload_data, cleaned_tokens, token_list, temp_file,
                   preload_file, varsHash, varsClean>>

\* open or json.dump raises OSError
SaveVocabFails ==
    /\ script = "baseline" /\ pc = "save_vocab"
    /\ vocab_file' \in {"absent", "partial"}
    /\ Raise
    /\ UNCHANGED <<script, input_file, text_file, vocab, idx, preload_data,
                   cleaned_tokens, token_list, temp_file, preload_file,
                   varsHash, varsClean>>

\* ---- build_bpe_baseline.py, lines 177-193: one iteration ----
ProcessToken ==
    /\ script = "baseline" /\ pc = "loop"
    /\ idx < Len(vocab)
    /\ LET e == vocab[idx + 1]
           cleaned_token == clean_bpe_token(e.token)
       IN /\ preload_data' = ProcessEntry(preload_data, e)
          /\ cleaned_tokens' = IF cleaned_token = None THEN cleaned_tokens
                               ELSE Append(cleaned_tokens, cleaned_token)
    /\ idx' = idx + 1
    /\ UNCHANGED <<script, pc, outcome, input_file, text_file, vocab,
                   token_list, vocab_file, temp_file, preload_file,
                   varsHash, varsClean>>

\* ---- build_bpe_baseline.py, lines 196-198 ----
\* open(preload_file, "w") creates or truncates the file
OpenPreload ==
    /\ script = "baseline" /\ pc = "loop"
    /\ idx = Len(vocab)
    /\ preload_file' = FileOpen(0)
    /\ pc' = "write"
    /\ UNCHANGED <<script, outcome, input_file, text_file, vocab, idx,
                   preload_data, cleaned_tokens, token_list, vocab_file,
                   temp_file, varsHash, varsClean>>

\* open raises OSError (the path is not writable)
OpenPreloadFails ==
    /\ script = "baseline" /\ pc = "loop"
    /\ idx = Len(vocab)
    /\ Raise
    /\ UNCHANGED <<script, input_file, text_file, vocab, idx, preload_data,
                   cleaned_tokens, token_list, vocab_file, temp_file,
                   preload_file, varsHash, varsClean>>

\* json.dump writes the next item of preload_data to the file
WritePreloadItem ==
    /\ script = "baseline" /\ pc = "write"
    /\ preload_file.n < Cardinality(DOMAIN preload_data)
    /\ preload_file' = FileOpen(preload_file.n + 1)
    /\ UNCHANGED <<script, pc, outcome, input_file, text_file, vocab, idx,
                   preload_data, cleaned_tokens, token_list, vocab_file,
                   temp_file, varsHash, varsClean>>

\* a write or the closing flush raises OSError (the disk is full)
WritePreloadFails ==
    /\ script = "baseline" /\ pc = "write"
    /\ Raise
    /\ UNCHANGED <<script, input_file, text_file, vocab, idx, preload_data,
                   cleaned_tokens, token_list, vocab_file, temp_file,
                   preload_file, varsHash, varsClean>>

\* the dump is finished and the with-block closes the file
ClosePreload ==
    /\ script = "baseline" /\ pc = "write"
    /\ preload_file.n = Cardinality(DOMAIN preload_data)
    /\ preload_file' = FileComplete(preload_file.n)
    /\ pc' = "report"
    /\ UNCHANGED <<script, outcome, input_file, text_file, vocab, idx,
                   preload_data, cleaned_tokens, token_list, vocab_file,
                   temp_file, varsHash, varsClean>>

\* ---- corpora/bpe.py, lines 120-127: one iteration ----
ProcessTokenCorpora ==
    /\ script = "corpora" /\ pc = "loop"
    /\ idx < Len(vocab)
    /\ token_list' = Append(token_list,
                            [value |-> clean_bpe_token_corpora(vocab[idx + 1].token),
                             token_id |-> vocab[idx + 1].token_id])
    /\ idx' = idx + 1
    /\ UNCHANGED <<script, pc, outcome, input_file, text_file, vocab,
                   preload_data, cleaned_tokens, vocab_file, temp_file,
                   preload_file, varsHash, varsClean>>

\* ---- corpora/bpe.py, lines 130-134: the dump to /tmp ----
OpenTemp ==
    /\ script = "corpora" /\ pc = "loop"
    /\ idx = Len(vocab)
    /\ temp_file' = FileOpen(0)
    /\ pc' = "write_temp"
    /\ UNCHANGED <<script, outcome, input_file, text_file, vocab, idx,
                   preload_data, cleaned_tokens, token_list, vocab_file,
                   preload_file, varsHash, varsClean>>

OpenTempFails ==
    /\ script = "corpora" /\ pc = "loop"
    /\ idx = Len(vocab)
    /\ Raise
    /\ UNCHANGED <<script, input_file, text_file, vocab, idx, preload_data,
                   cleaned_tokens, token_list, vocab_file, temp_file,
                   preload_file, varsHash, varsClean>>

WriteTempItem ==
    /\ script = "corpora" /\ pc = "write_temp"
    /\ temp_file.n < Len(token_list)
    /\ temp_file' = FileOpen(temp_file.n + 1)
    /\ UNCHANGED <<script, pc, outcome, input_file, text_file, vocab, idx,
                   preload_data, cleaned_tokens, token_list, vocab_file,
                   preload_file, varsHash, varsClean>>

WriteTempFails ==
    /\ script = "corpora" /\ pc = "write_temp"
    /\ Raise
    /\ UNCHANGED <<script, input_file, text_file, vocab, idx, preload_data,
                   cleaned_tokens, token_list, vocab_file, temp_file,
                   preload_file, varsHash, varsClean>>

CloseTemp ==
    /\ script = "corpora" /\ pc = "write_temp"
    /\ temp_file.n = Len(token_list)
    /\ temp_file' = FileComplete(temp_file.n)
    /\ pc' = "copy"
    /\ UNCHANGED <<script, outcome, input_file, text_file, vocab, idx,
                   preload_data, cleaned_tokens, token_list, vocab_file,
                   preload_file, varsHash, varsClean>>

\* ---- corpora/bpe.py, line 138: shutil.copy2(temp_preload_file, preload_file) ----
\* copy2 opens the destination for writing, which creates or truncates it
CopyOpen ==
    /\ script = "corpora" /\ pc = "copy"
    /\ preload_file' = FileOpen(0)
    /\ pc' = "copying"
    /\ UNCHANGED <<script, outcome, input_file, text_file, vocab, idx,
                   preload_data, cleaned_tokens, token_list, vocab_file,
                   temp_file, varsHash, varsClean>>

CopyOpenFails ==
    /\ script = "corpora" /\ pc = "copy"
    /\ Raise
    /\ UNCHANGED <<script, input_file, text_file, vocab, idx, preload_data,
                   cleaned_tokens, token_list, vocab_file, temp_file,
                   preload_file, varsHash, varsClean>>

\* copy2 copies the next piece of the temporary file
CopyItem ==
    /\ script = "corpora" /\ pc = "copying"
    /\ preload_file.n < temp_file.n
    /\ preload_file' = FileOpen(preload_file.n + 1)
    /\ UNCHANGED <<script, pc, outcome, input_file, text_file, vocab, idx,
                   preload_data, cleaned_tokens, token_list, vocab_file,
                   temp_file, varsHash, varsClean>>

CopyFails ==
    /\ script = "corpora" /\ pc = "copying"
    /\ Raise
    /\ UNCHANGED <<script, input_file, text_file, vocab, idx, preload_data,
                   cleaned_tokens, token_list, vocab_file, temp_file,
                   preload_file, varsHash, varsClean>>

CopyClose ==
    /\ script = "corpora" /\ pc = "copying"
    /\ preload_file.n = temp_file.n
    /\ preload_file' = FileComplete(preload_file.n)
    /\ pc' = "report"
    /\ UNCHANGED <<script, outcome, input_file, text_file, vocab, idx,
                   preload_data, cleaned_tokens, token_list, vocab_file,
                   temp_file, varsHash, varsClean>>

\* ---- the reports after the dump, and return True (both scripts) ----
ReturnTrue ==
    /\ pc = "report"
    /\ pc' = "done" /\ outcome' = "true"
    /\ UNCHANGED <<script, input_file, text_file, vocab, idx, preload_data,
                   cleaned_tokens, token_list, vocab_file, temp_file,
                   preload_file, varsHash, varsClean>>

\* every step of a build but the trainer's
BuildSteps ==
    \/ UseInputFile \/ DownloadSample \/ DownloadFails
    \/ ValidateInputOk \/ ValidateInputFails
    \/ TokenizerUnavailable \/ TrainRaises
    \/ SaveVocab \/ SaveVocabFails
    \/ ProcessToken
    \/ OpenPreload \/ OpenPreloadFails
    \/ WritePreloadItem \/ WritePreloadFails \/ ClosePreload
    \/ ProcessTokenCorpora
    \/ OpenTemp \/ OpenTempFails \/ WriteTempItem \/ WriteTempFails \/ CloseTemp
    \/ CopyOpen \/ CopyOpenFails \/ CopyItem \/ CopyFails \/ CopyClose
    \/ ReturnTrue

BuildNext == TrainTokenizer \/ BuildSteps

\* the vocabulary {"run": 0, "running</w>": 1, "<unk>": 2}
ExampleVocabulary ==
    << [token |-> <<114, 117, 110>>, token_id |-> 0],
       [token |-> <<114, 117, 110, 110, 105, 110, 103, 60, 47, 119, 62>>, token_id |-> 1],
       [token |-> <<60, 117, 110, 107, 62>>, token_id |-> 2] >>

\* the same items in every iteration order
Orderings(items) ==
    LET n == Len(items) IN
    {[i \in 1..n |-> items[f[i]]] :
        f \in {g \in [1..n -> 1..n] : \A i, j \in 1..n : g[i] = g[j] => i = j}}

\* tokenizer.get_vocab() (line 163) of a tokenizer whose training on the
\* corpus learnt the example vocabulary
TrainExample ==
    /\ pc = "train"
    /\ text_file \in {"ok", "empty"}
    /\ vocab' \in IF text_file = "ok" THEN Orderings(ExampleVocabulary)
                  ELSE TrainerVocabularies(text_file)
    /\ pc' = IF script = "baseline" THEN "save_vocab" ELSE "loop"
    /\ UNCHANGED <<script, outcome, input_file, text_file, idx, preload_data,
                   cleaned_tokens, token_list, vocab_file, temp_file,
                   preload_file, varsHash, varsClean>>

BuildNextExample == TrainExample \/ BuildSteps

(***************************************************************************)
(* Specifications.                                                         *)
(***************************************************************************)
Init == BuildInit /\ HashIdle /\ CleanIdle
Next == BuildNext
Spec == Init /\ [][Next]_vars

InitHash == HashInit /\ CleanIdle /\ BuildIdle
SpecHash == InitHash /\ [][HashNext]_vars

InitClean == CleanInit /\ HashIdle /\ BuildIdle
SpecClean == InitClean /\ [][CleanNext]_vars

\* a build whose trainer learns the example vocabulary
NextExample == BuildNextExample
SpecExample == Init /\ [][NextExample]_vars

(***************************************************************************)
(* The reference algorithm of the fingerprint, on little-endian byte       *)
(* quadruples <<b0, b1, b2, b3>>, written independently of the model above.*)
(***************************************************************************)
RefBit(a, k) == (a \div (2 ^ k)) % 2
RefXorByte(a, b) ==
    LET d(k) == IF RefBit(a, k) = RefBit(b, k) THEN 0 ELSE 2 ^ k
    IN d(0) + d(1) + d(2) + d(3) + d(4) + d(5) + d(6) + d(7)
RefXor(x, y) == [i \in 1..4 |-> RefXorByte(x[i], y[i])]
\* schoolbook product, truncated to four bytes (mod 2^32)
RefMul(x, y) ==
    LET c0 == x[1] * y[1]
        c1 == x[1] * y[2] + x[2] * y[1] + (c0 \div 256)
        c2 == x[1] * y[3] + x[2] * y[2] + x[3] * y[1] + (c1 \div 256)
        c3 == x[1] * y[4] + x[2] * y[3] + x[3] * y[2] + x[4] * y[1] + (c2 \div 256)
    IN <<c0 % 256, c1 % 256, c2 % 256, c3 % 256>>
RefShr16(x) == <<x[3], x[4], 0, 0>>
\* >> 13 is >> 8 followed by >> 5
RefShr13(x) ==
    << (x[2] \div 32) + (x[3] % 32) * 8,
       (x[3] \div 32) + (x[4] % 32) * 8,
       x[4] \div 32,
       0 >>
RefCodePoint(c) == <<c % 256, (c \div 256) % 256, c \div 65536, 0>>
RefWord(h) == <<h[2] % 256, h[2] \div 256, h[1] % 256, h[1] \div 256>>
Ref_deadbeef == <<239, 190, 173, 222>>
Ref_41c6ce57 == <<87, 206, 198, 65>>
Ref_2654435761 == <<177, 121, 55, 158>>
Ref_1597334677 == <<149, 100, 53, 95>>
Ref_2246822507 == <<107, 202, 235, 133>>
Ref_3266489909 == <<53, 174, 178, 194>>

RECURSIVE RefChars(_, _, _)
RefChars(a, b, s) ==
    IF s = <<>> THEN <<a, b>>
    ELSE RefChars(RefMul(RefXor(a, RefCodePoint(Head(s))), Ref_2654435761),
                  RefMul(RefXor(b, RefCodePoint(Head(s))), Ref_1597334677),
                  Tail(s))

\* the four mixing lines in sequence, then the byte layout
RefFinish(a, b, length) ==
    LET a1 == RefMul(RefXor(a, RefShr16(a)), Ref_2246822507)
        a2 == RefXor(a1, RefMul(RefXor(b, RefShr13(b)), Ref_3266489909))
        b1 == RefMul(RefXor(b, RefShr16(b)), Ref_2246822507)
        b2 == RefXor(b1, RefMul(RefXor(a2, RefShr13(a2)), Ref_3266489909))
    IN [i \in 1..length |->
           IF i <= 4 THEN b2[i] ELSE IF i <= 8 THEN a2[i - 4] ELSE 0]

RefFingerprint(s, k, length) ==
    LET hs == RefChars(RefXor(Ref_deadbeef, RefWord(k)),
                       RefXor(Ref_41c6ce57, RefWord(k)), s)
    IN RefFinish(hs[1], hs[2], length)

\* C2: every finished cyrb53 call returned exactly the bytes of the reference
\* algorithm for its (string, seed, length); for the empty string, seed 0 and
\* length 8 these are the avalanche mix of the two untouched initial
\* constants, the bytes b8 dc 8b 48 83 8d ee 1a.
C2_MatchesReference ==
    \A p \in Calls :
        hpc[p] = "done" =>
            /\ result[p] = RefFingerprint(data[p], seed[p], hash_size[p])
            /\ (data[p] = <<>> /\ seed[p] = <<0, 0>> /\ hash_size[p] = 8) =>
                   /\ result[p] = RefFinish(Ref_deadbeef, Ref_41c6ce57, 8)
                   /\ result[p] = <<184, 220, 139, 72, 131, 141, 238, 26>>

\* a finished call on a two-character string holding a code point above
\* 0xFFFF, with seed 0xFFFFFFFF and 64 bytes asked for
C2_Witness ==
    \E p \in Calls :
        /\ hpc[p] = "done"
        /\ Len(data[p]) >= 2
        /\ \E i \in 1..Len(data[p]) : data[p][i] > 65535
        /\ seed[p] = <<65535, 65535>>
        /\ hash_size[p] = 64
        /\ SubSeq(result[p], 1, 8) # <<0, 0, 0, 0, 0, 0, 0, 0>>

MinOf(a, b) == IF a < b THEN a ELSE b

\* C3: a finished call's result has exactly the requested length and is zero
\* from index min(8, length) on; two finished calls on the same string and
\* seed agree on every byte both results have (so the 64-byte and the 8-byte
\* result agree on their first 8 bytes, and a shorter result is a prefix).
C3_CrossLength ==
    /\ \A p \in Calls :
           hpc[p] = "done" =>
               /\ Len(result[p]) = hash_size[p]
               /\ \A i \in 1..Len(result[p]) :
                      i > MinOf(8, hash_size[p]) => result[p][i] = 0
    /\ \A p, q \in Calls :
           (hpc[p] = "done" /\ hpc[q] = "done"
               /\ data[p] = data[q] /\ seed[p] = seed[q]) =>
               \A i \in 1..MinOf(hash_size[p], hash_size[q]) :
                   result[p][i] = result[q][i]

\* one call finished with 64 bytes and the other with 8, on a non-empty string
C3_Witness ==
    /\ hpc[1] = "done" /\ hpc[2] = "done"
    /\ hash_size[1] = 64 /\ hash_size[2] = 8
    /\ data[1] # <<>> /\ data[1] = data[2] /\ seed[1] = seed[2]
    /\ result[2] # <<0, 0, 0, 0, 0, 0, 0, 0>>

\* C4: two calls on the same (string, seed, length) that ran side by side, in
\* any interleaving of their steps, returned the same bytes, and these are the
\* bytes of the call evaluated alone: nothing but the arguments decides them.
C4_Deterministic ==
    /\ \A p, q \in Calls :
           (hpc[p] = "done" /\ hpc[q] = "done" /\ data[p] = data[q]
               /\ seed[p] = seed[q] /\ hash_size[p] = hash_size[q]) =>
               result[p] = result[q]
    /\ \A p \in Calls :
           hpc[p] = "done" => result[p] = cyrb53(data[p], seed[p], hash_size[p])

\* both calls finished on the same non-empty string, seed and length
C4_Witness ==
    /\ hpc[1] = "done" /\ hpc[2] = "done"
    /\ Len(data[1]) >= 2 /\ data[1] = data[2] /\ seed[1] = seed[2]
    /\ hash_size[1] = 64 /\ hash_size[2] = 64

(***************************************************************************)
(* The cleaning rule, with the literals of the claims.                     *)
(***************************************************************************)
\* "</w>"
ClaimMarker == <<60, 47, 119, 62>>
\* "<unk>", "<pad>", "<s>", "</s>"
ClaimPlaceholders ==
    { <<60, 117, 110, 107, 62>>, <<60, 112, 97, 100, 62>>,
      <<60, 115, 62>>, <<60, 47, 115, 62>> }
HasMarker(t) ==
    /\ Len(t) >= 4
    /\ t[Len(t) - 3] = 60 /\ t[Len(t) - 2] = 47
    /\ t[Len(t) - 1] = 119 /\ t[Len(t)] = 62

\* C7: the value clean_bpe_token returned for token t is t without exactly one
\* trailing "</w>" when t ends with "</w>"; otherwise it is None (filtered)
\* when t is one of the four placeholders; otherwise it is t.
C7_CleaningRule ==
    (cpc \in {"cleaned", "recleaned"}) =>
        IF HasMarker(token) THEN cleaned # None /\ cleaned \o ClaimMarker = token
        ELSE IF token \in ClaimPlaceholders THEN cleaned = None
        ELSE cleaned = token

\* "a</w></w>" was cleaned to "a</w>"
C7_Witness ==
    /\ cpc = "cleaned"
    /\ token = <<97>> \o ClaimMarker \o ClaimMarker
    /\ cleaned = <<97>> \o ClaimMarker

\* C8 as stated: cleaning the cleaned result of any surviving token changes
\* nothing.
C8_Idempotent == (cpc = "recleaned") => recleaned = cleaned

\* C8 amended: cleaning the cleaned result changes nothing when that result
\* neither ends with "</w>" nor is one of the four placeholders.
C8_IdempotentOnPlain ==
    (cpc = "recleaned" /\ ~HasMarker(cleaned) /\ cleaned \notin ClaimPlaceholders)
        => recleaned = cleaned

\* "a</w>" was cleaned to "a", and "a" cleaned again
C8_Witness ==
    /\ cpc = "recleaned"
    /\ token = <<97>> \o ClaimMarker
    /\ cleaned = <<97>>

(***************************************************************************)
(* The preload mapping.                                                    *)
(***************************************************************************)
\* C1: every key of the preload mapping is the base64 text of the 64-byte
\* seed-0 fingerprint of its own record's data field.
C1_RoundTrip ==
    \A k \in DOMAIN preload_data :
        k = create_storage_key(cyrb53(preload_data[k].data, <<0, 0>>, 64))

\* a finished baseline build with two records, one of them of a token whose
\* cleaning removed the marker
C1_Witness ==
    /\ script = "baseline" /\ pc = "done" /\ outcome = "true"
    /\ Cardinality(DOMAIN preload_data) >= 2
    /\ \E k \in DOMAIN preload_data :
           preload_data[k].original_bpe # preload_data[k].data

\* C5 as stated: whenever the final path is read it holds no partially
\* written artifact: there is no file, the previous one, or the complete new
\* one.
C5_NeverPartial == preload_file.st \in {"absent", "previous", "complete"}

\* C6 as stated: when the build has ended, by returning or by an uncaught
\* write error, the final path holds no partially written artifact.
C6_NoPartialAtExit ==
    (pc = "done") => preload_file.st \in {"absent", "previous", "complete"}

\* what cleaning must give for a token that is no placeholder
ClaimCleaned(t) == IF HasMarker(t) THEN SubSeq(t, 1, Len(t) - 4) ELSE t

\* C9: clean_bpe_token returns None for a vocabulary token exactly when it is
\* one of the four placeholders; the baseline builder has emitted a cleaned token and holds a record at its key
\* for every consumed entry that is no placeholder, and nothing for a
\* placeholder.
C9_FilterCompleteness ==
    /\ \A i \in 1..Len(vocab) :
           (clean_bpe_token(vocab[i].token) = None)
               <=> (vocab[i].token \in ClaimPlaceholders)
    /\ (script = "baseline") =>
           /\ Len(cleaned_tokens) =
                  Cardinality({i \in 1..idx : vocab[i].token \notin ClaimPlaceholders})
           /\ \A i \in 1..idx :
                  (vocab[i].token \notin ClaimPlaceholders) =>
                      /\ \E j \in 1..Len(cleaned_tokens) :
                             cleaned_tokens[j] = ClaimCleaned(vocab[i].token)
                      /\ create_storage_key(cyrb53(ClaimCleaned(vocab[i].token), <<0, 0>>, 64))
                             \in DOMAIN preload_data
           /\ \A k \in DOMAIN preload_data :
                  preload_data[k].original_bpe \notin ClaimPlaceholders

\* a finished baseline build of a vocabulary holding "</s>" and one token
\* that is no placeholder
C9_Witness ==
    /\ script = "baseline" /\ pc = "done" /\ outcome = "true"
    /\ Len(vocab) = 2 /\ Len(cleaned_tokens) = 1
    /\ \E i \in 1..Len(vocab) : vocab[i].token = <<60, 47, 115, 62>>

RECURSIVE BuildMapping(_, _, _)
\* the mapping the loop builds from items[k..] on top of m
BuildMapping(items, k, m) ==
    IF k > Len(items) THEN m
    ELSE BuildMapping(items, k + 1, ProcessEntry(m, items[k]))

\* the baseline loop has consumed the whole vocabulary
LoopFinished == script = "baseline" /\ pc = "loop" /\ idx = Len(vocab)

\* C10 as stated: once the loop has consumed the vocabulary, the mapping it
\* built is the mapping any other insertion order of the same entries builds.
C10_OrderIndependent ==
    LoopFinished =>
        \A items \in Orderings(vocab) :
            BuildMapping(items, 1, EmptyDict) = preload_data

\* the storage key of entry e, or None when e is filtered
EntryKey(e) ==
    IF e.token \in ClaimPlaceholders THEN None
    ELSE create_storage_key(cyrb53(ClaimCleaned(e.token), <<0, 0>>, 64))

\* no two surviving entries of items have the same storage key
NoSharedKey(items) ==
    \A i, j \in 1..Len(items) :
        (i # j /\ EntryKey(items[i]) # None) => EntryKey(items[i]) # EntryKey(items[j])

\* C10 amended: the same, for a vocabulary in which no two surviving entries
\* produce the same storage key.
C10_OrderIndependentNoSharedKey ==
    (LoopFinished /\ NoSharedKey(vocab)) =>
        \A items \in Orderings(vocab) :
            BuildMapping(items, 1, EmptyDict) = preload_data

\* the loop finished on two surviving entries that left two records
C10_Witness ==
    /\ LoopFinished
    /\ Len(vocab) = 2
    /\ NoSharedKey(vocab)
    /\ Cardinality(DOMAIN preload_data) = 2

\* the entries among the first n of items that survive cleaning
Survivors(items, n) == {i \in 1..n : items[i].token \notin ClaimPlaceholders}

\* no two distinct cleaned tokens of items have the same storage key
NoHashCollision(items) ==
    \A i, j \in Survivors(items, Len(items)) :
        (ClaimCleaned(items[i].token) # ClaimCleaned(items[j].token))
            => EntryKey(items[i]) # EntryKey(items[j])

\* C11 as stated: for a vocabulary of unique raw tokens in which no two
\* distinct cleaned tokens share a storage key, the mapping the baseline loop
\* has built holds as many records as it has consumed entries that survive
\* cleaning, and at most one record per cleaned-token value.
C11_OneRecordPerSurvivor ==
    (script = "baseline" /\ NoHashCollision(vocab)) =>
        /\ Cardinality(DOMAIN preload_data) = Cardinality(Survivors(vocab, idx))
        /\ \A k1, k2 \in DOMAIN preload_data :
               (preload_data[k1].data = preload_data[k2].data) => k1 = k2

\* C11 amended: under the same precondition the mapping holds exactly one
\* record for each distinct cleaned-token value of the consumed entries that
\* survive cleaning (two raw tokens that clean to the same string leave one
\* record), and at most one record per cleaned-token value.
C11_OneRecordPerCleanedValue ==
    (script = "baseline" /\ NoHashCollision(vocab)) =>
        /\ {preload_data[k].data : k \in DOMAIN preload_data}
               = {ClaimCleaned(vocab[i].token) : i \in Survivors(vocab, idx)}
        /\ Cardinality(DOMAIN preload_data)
               = Cardinality({ClaimCleaned(vocab[i].token) : i \in Survivors(vocab, idx)})
        /\ \A k1, k2 \in DOMAIN preload_data :
               (preload_data[k1].data = preload_data[k2].data) => k1 = k2

\* a finished baseline build in which two surviving raw tokens cleaned to
\* the same string and left one record
C11_Witness ==
    /\ script = "baseline" /\ pc = "done" /\ outcome = "true"
    /\ NoHashCollision(vocab)
    /\ Cardinality(Survivors(vocab, Len(vocab))) = 2
    /\ Cardinality(DOMAIN preload_data) = 1

\* a 64-byte key whose first 8 bytes encode to prefix and whose rest is zero
KeyWithPrefix(prefix) == prefix \o [i \in 1..75 |-> "A"] \o <<"=", "=">>

\* base64(cyrb53("run")) and base64(cyrb53("running")), as Python computes them
Key_run == KeyWithPrefix(<<"6", "s", "A", "n", "T", "a", "O", "R", "J", "7", "g">>)
Key_running == KeyWithPrefix(<<"+", "5", "q", "t", "t", "V", "/", "p", "Z", "T", "Y">>)

\* the baseline loop has consumed the example vocabulary
ExampleBuilt ==
    /\ script = "baseline"
    /\ vocab \in Orderings(ExampleVocabulary)
    /\ idx = Len(vocab)

\* C12: building from {"run": 0, "running</w>": 1, "<unk>": 2} yields exactly
\* 2 records, with data "run" and "running", none derived from "<unk>", each
\* at the key base64(cyrb53(data)).
C12_EndToEnd ==
    ExampleBuilt =>
        /\ Cardinality(DOMAIN preload_data) = 2
        /\ {preload_data[k].data : k \in DOMAIN preload_data}
               = {<<114, 117, 110>>, <<114, 117, 110, 110, 105, 110, 103>>}
        /\ \A k \in DOMAIN preload_data :
               /\ preload_data[k].original_bpe # <<60, 117, 110, 107, 62>>
               /\ preload_data[k].data # <<60, 117, 110, 107, 62>>
               /\ k = create_storage_key(cyrb53(preload_data[k].data, <<0, 0>>, 64))
        /\ DOMAIN preload_data = {Key_run, Key_running}
        /\ preload_data[Key_run].data = <<114, 117, 110>>
        /\ preload_data[Key_running].data = <<114, 117, 110, 110, 105, 110, 103>>

\* a finished baseline build of the example vocabulary, "<unk>" consumed
\* before the two other entries
C12_Witness ==
    /\ ExampleBuilt
    /\ pc = "done" /\ outcome = "true"
    /\ vocab[1].token = <<60, 117, 110, 107, 62>>
    /\ preload_file = FileComplete(2)

\* main's return value once build_bpe_tokenizer has ended: 0 on success, 1
\* on False; an uncaught exception ends the process with status 1
main_return == IF outcome = "true" THEN 0 ELSE 1

\* the input corpus is missing, empty or unreadable
InputError == input_file \in {"absent", "empty", "unreadable"}

\* tokenizer.train has been called
TrainerInvoked ==
    \/ pc \in {"save_vocab", "loop", "write", "write_temp", "copy", "copying", "report"}
    \/ pc = "done" /\ outcome \in {"true", "raised"}

\* C13 as stated: with a missing, empty or unreadable input corpus the
\* trainer is never invoked, no artifact file is written, and the build ends
\* with build_bpe_tokenizer returning False and main returning non-zero.
C13_InputErrorAborts ==
    InputError =>
        /\ ~TrainerInvoked
        /\ vocab_file = "absent"
        /\ temp_file = FileAbsent
        /\ preload_file \in {FileAbsent, FilePrevious}
        /\ (pc = "done") => (outcome = "false" /\ main_return # 0)

\* consumed entries i before j survive cleaning and have the same storage
\* key, and no entry consumed after j has it
CollidingPair(i, j) ==
    /\ i < j /\ j <= idx
    /\ EntryKey(vocab[i]) # None
    /\ EntryKey(vocab[i]) = EntryKey(vocab[j])
    /\ \A l \in (j + 1)..idx : EntryKey(vocab[l]) # EntryKey(vocab[j])

\* C14: when two surviving entries produce the same storage key, the mapping
\* holds one record at that key, the record of the entry processed later
\* (its data, token_id and original_bpe); the earlier entry has left no
\* record, and the loop goes on without an error.
C14_CollisionOverwrite ==
    (script = "baseline") =>
        \A i, j \in 1..idx :
            CollidingPair(i, j) =>
                /\ EntryKey(vocab[j]) \in DOMAIN preload_data
                /\ preload_data[EntryKey(vocab[j])] =
                       [data |-> ClaimCleaned(vocab[j].token), frequency |-> 1,
                        token_id |-> vocab[j].token_id,
                        original_bpe |-> vocab[j].token]
                /\ \A k \in DOMAIN preload_data :
                       preload_data[k].original_bpe # vocab[i].token
                /\ Cardinality({k \in DOMAIN preload_data :
                                   preload_data[k].data = ClaimCleaned(vocab[j].token)}) = 1
                /\ (pc = "loop") => (outcome = "none")

\* a build that consumed "running</w>" and then "running", which share a
\* key, and ended with success
C14_Witness ==
    /\ script = "baseline" /\ pc = "done" /\ outcome = "true"
    /\ Len(vocab) = 2 /\ idx = 2
    /\ CollidingPair(1, 2)
    /\ vocab[2].token = <<114, 117, 110, 110, 105, 110, 103>>
    /\ Cardinality(DOMAIN preload_data) = 1
    /\ preload_file = FileComplete(1)

\* w is a word of 0..2^32-1, as two halves of 0..65535
InWord32(w) == w[1] \in 0..65535 /\ w[2] \in 0..65535

\* C15: for a seed of 0..2^32-1 the accumulators h1 and h2 of cyrb53 lie in
\* 0..2^32-1 after the initialization, after every per-character step and
\* after each of the four final mixing lines.
C15_Accumulators32Bit ==
    \A p \in Calls :
        InWord32(seed[p]) => (InWord32(h1[p]) /\ InWord32(h2[p]))

\* a call on seed 0xFFFFFFFF that has stepped over two characters and run
\* the four mixing lines, ending with bit 31 set in both accumulators
C15_Witness ==
    \E p \in Calls :
        /\ hpc[p] = "fill"
        /\ seed[p] = <<65535, 65535>>
        /\ Len(data[p]) = 2 /\ char_idx[p] = 3
        /\ h1[p][1] >= 32768 /\ h2[p][1] >= 32768

\* C16 as stated: no record of the mapping has a data field equal to one of
\* the placeholders "<unk>", "<pad>", "<s>", "</s>", whatever the vocabulary,
\* a placeholder followed by the end-of-word suffix included.
C16_NoPlaceholderData ==
    \A k \in DOMAIN preload_data :
        preload_data[k].data \notin ClaimPlaceholders
====
